---- MODULE Spec2Model ----
(***************************************************************************)
(* Model of the Eudia legal summarizer backend (src/main.py): the regex    *)
(* extractors (extract_future_dates, extract_case_numbers,                 *)
(* generate_case_timeline), the structured-summary extractor and the       *)
(* upload_and_summarize request handler.                                   *)
(*                                                                         *)
(* Texts are TLA+ strings; a character is a string of length one, and the  *)
(* regular expressions and strptime/strftime of the source are evaluated   *)
(* character by character.                                                 *)
(***************************************************************************)
EXTENDS Integers, Sequences, FiniteSets, TLC

(***************************************************************************)
(* Characters and the character classes of Python's re module.             *)
(***************************************************************************)

\* The character of s at position i (1-based), "" outside the string.
Ch(s, i) == IF i >= 1 /\ i <= Len(s) THEN SubSeq(s, i, i) ELSE ""

DigitChars == {"0", "1", "2", "3", "4", "5", "6", "7", "8", "9"}

UpperChars ==
  {"A", "B", "C", "D", "E", "F", "G", "H", "I", "J", "K", "L", "M",
   "N", "O", "P", "Q", "R", "S", "T", "U", "V", "W", "X", "Y", "Z"}

LowerChars ==
  {"a", "b", "c", "d", "e", "f", "g", "h", "i", "j", "k", "l", "m",
   "n", "o", "p", "q", "r", "s", "t", "u", "v", "w", "x", "y", "z"}

\* \s
SpaceChars == {" ", "\t", "\n", "\r"}

\* \w
WordChars == DigitChars \cup UpperChars \cup LowerChars \cup {"_"}

LowerMap ==
  [A |-> "a", B |-> "b", C |-> "c", D |-> "d", E |-> "e", F |-> "f",
   G |-> "g", H |-> "h", I |-> "i", J |-> "j", K |-> "k", L |-> "l",
   M |-> "m", N |-> "n", O |-> "o", P |-> "p", Q |-> "q", R |-> "r",
   S |-> "s", T |-> "t", U |-> "u", V |-> "v", W |-> "w", X |-> "x",
   Y |-> "y", Z |-> "z"]

\* Case folding of one character (re.IGNORECASE compares folded characters).
LowerCh(c) == IF c \in UpperChars THEN LowerMap[c] ELSE c

DigitMap ==
  [c \in DigitChars |->
     CASE c = "0" -> 0 [] c = "1" -> 1 [] c = "2" -> 2 [] c = "3" -> 3
       [] c = "4" -> 4 [] c = "5" -> 5 [] c = "6" -> 6 [] c = "7" -> 7
       [] c = "8" -> 8 [] c = "9" -> 9]

DigitStr == <<"0", "1", "2", "3", "4", "5", "6", "7", "8", "9">>

\* \b at position i: exactly one of the characters around it is a word one.
WordBoundary(s, i) == (Ch(s, i - 1) \in WordChars) # (Ch(s, i) \in WordChars)

MaxOf(S) == CHOOSE x \in S : \A y \in S : y <= x

MinOf(S) == CHOOSE x \in S : \A y \in S : x <= y

\* The least element of a set of positions, 0 when there is none.
FirstIn(S) == IF S = {} THEN 0 ELSE MinOf(S)

\* Length of the longest run of characters of class cls starting at i: it
\* ends before the first position from i on whose character is not in cls.
Run(s, i, cls) ==
  IF Ch(s, i) \notin cls THEN 0
  ELSE MinOf({k \in i..(Len(s) + 1) : Ch(s, k) \notin cls}) - i

DigitRun(s, i) == Run(s, i, DigitChars)

SpaceRun(s, i) == Run(s, i, SpaceChars)

\* The number written by the n digits of s starting at i.
RECURSIVE NumVal(_, _, _)
NumVal(s, i, n) ==
  IF n = 0 THEN 0 ELSE NumVal(s, i, n - 1) * 10 + DigitMap[Ch(s, i + n - 1)]

\* Whether the literal lit occurs in s at i; ic = TRUE ignores case.
RECURSIVE LitAt(_, _, _, _)
LitAt(s, i, lit, ic) ==
  IF lit = "" THEN TRUE
  ELSE LET a == Ch(s, i)
           b == Ch(lit, 1)
       IN /\ a # ""
          /\ IF ic THEN LowerCh(a) = LowerCh(b) ELSE a = b
          /\ LitAt(s, i + 1, SubSeq(lit, 2, Len(lit)), ic)

MonthNames ==
  <<"January", "February", "March", "April", "May", "June", "July",
    "August", "September", "October", "November", "December">>

\* (?:January|...|December) at i: the month's number, 0 when none matches.
\* No month name is a prefix of another, so at most one matches.
MonthAt(s, i, ic) ==
  IF LowerCh(Ch(s, i)) \notin {"j", "f", "m", "a", "s", "o", "n", "d"} THEN 0
  ELSE LET ms == {m \in 1..12 : LitAt(s, i, MonthNames[m], ic)}
       IN IF ms = {} THEN 0 ELSE CHOOSE m \in ms : TRUE

\* (?:st|nd|rd|th) at i.
OrdinalAt(s, i, ic) ==
  \E o \in {"st", "nd", "rd", "th"} : LitAt(s, i, o, ic)

(***************************************************************************)
(* The pieces of the patterns.  A piece takes the position p it starts at  *)
(* and gives the position after what it matched, 0 when it does not match; *)
(* p = 0 (an earlier piece failed) matches nothing, since Ch(s, 0) = "".   *)
(***************************************************************************)

\* a when the first of two tries matched, else b.
FirstOf(a, b) == IF a # 0 THEN a ELSE b

\* \s*
SkipSpaces(s, p) == p + SpaceRun(s, p)

\* [\s,]*
SkipSpacesCommas(s, p) == p + Run(s, p, SpaceChars \cup {","})

\* ,?
SkipComma(s, p) == IF Ch(s, p) = "," THEN p + 1 ELSE p

\* (?:st|nd|rd|th)?
SkipOrdinal(s, p, ic) == IF OrdinalAt(s, p, ic) THEN p + 2 ELSE p

\* (?:January|...|December)
SkipMonth(s, p, ic) ==
  IF MonthAt(s, p, ic) = 0 THEN 0 ELSE p + Len(MonthNames[MonthAt(s, p, ic)])

\* \d{1,2} followed by something that is no digit.
SkipDay(s, p) == IF DigitRun(s, p) \in {1, 2} THEN p + DigitRun(s, p) ELSE 0

\* Exactly k digits, whatever follows.
TakeDigits(s, p, k) == IF DigitRun(s, p) >= k THEN p + k ELSE 0

\* One of the characters of cls.
SkipOne(s, p, cls) == IF Ch(s, p) \in cls THEN p + 1 ELSE 0

\* The closing \b of a pattern.
ClosingBoundary(s, p) == IF p # 0 /\ WordBoundary(s, p) THEN p ELSE 0

\* \d{4} and the closing \b.
YearEnd(s, p) == ClosingBoundary(s, TakeDigits(s, p, 4))

\* ,?\s*\d{4} and the closing \b.
CommaYearEnd(s, p) == YearEnd(s, SkipSpaces(s, SkipComma(s, p)))

(***************************************************************************)
(* The composite date patterns.  Every alternative gives the end (the      *)
(* position after the match) of the alternative matched at i followed by   *)
(* the pattern's closing \b, or 0 when it does not match there.            *)
(***************************************************************************)

\* \d{1,2}\s*(?:st|nd|rd|th)?\s*(?:January|...)[\s,]*\d{4}
DayMonthYearEnd(s, i, ic) ==
  YearEnd(s,
    SkipSpacesCommas(s,
      SkipMonth(s,
        SkipSpaces(s, SkipOrdinal(s, SkipSpaces(s, SkipDay(s, i)), ic)), ic)))

\* \d{1,2},?\s*\d{4} from p: \d{1,2} is greedy, two digits are tried before
\* one.
DayCommaYearEnd(s, p) ==
  FirstOf(CommaYearEnd(s, TakeDigits(s, p, 2)), CommaYearEnd(s, TakeDigits(s, p, 1)))

\* (?:January|...)\s*\d{1,2},?\s*\d{4}
MonthDayYearEnd(s, i, ic) ==
  DayCommaYearEnd(s, SkipSpaces(s, SkipMonth(s, i, ic)))

\* \s+ (minSpace = 1) or \s* (minSpace = 0).
SkipSpacesMin(s, p, minSpace) ==
  IF p # 0 /\ SpaceRun(s, p) >= minSpace THEN p + SpaceRun(s, p) ELSE 0

\* (?:January|...)\s+\d{4} (minSpace = 1) and (?:January|...)\s*\d{4}
\* (minSpace = 0).
MonthYearEnd(s, i, ic, minSpace) ==
  YearEnd(s, SkipSpacesMin(s, SkipMonth(s, i, ic), minSpace))

\* \d{4}-\d{2}-\d{2}
IsoEnd(s, i) ==
  ClosingBoundary(s,
    TakeDigits(s,
      SkipOne(s, TakeDigits(s, SkipOne(s, TakeDigits(s, i, 4), {"-"}), 2), {"-"}),
      2))

\* \d{2,4} and the closing \b: the longest of 4, 3, 2 digits after which
\* the boundary holds.
ShortYearEnd(s, p) ==
  IF {k \in 2..4 : k <= DigitRun(s, p) /\ WordBoundary(s, p + k)} = {} THEN 0
  ELSE p + MaxOf({k \in 2..4 : k <= DigitRun(s, p) /\ WordBoundary(s, p + k)})

\* \d{1,2}[/.-]\d{1,2}[/.-]\d{2,4}
NumericEnd(s, i) ==
  ShortYearEnd(s,
    SkipOne(s,
      SkipDay(s, SkipOne(s, SkipDay(s, i), {"/", ".", "-"})), {"/", ".", "-"}))

\* The first of the alternatives, in the pattern's order, that matches.
FirstEnd(ends) ==
  IF {k \in 1..Len(ends) : ends[k] # 0} = {} THEN 0
  ELSE ends[MinOf({k \in 1..Len(ends) : ends[k] # 0})]

\* date_pattern of extract_future_dates matched at i.
FutureDatePatternEnd(s, i, ic) ==
  IF ~WordBoundary(s, i) THEN 0
  ELSE FirstEnd(<<DayMonthYearEnd(s, i, ic), MonthDayYearEnd(s, i, ic),
                  MonthYearEnd(s, i, ic, 1), IsoEnd(s, i), NumericEnd(s, i)>>)

\* re.finditer(date_pattern, text, flags=re.IGNORECASE) from position i: the
\* matched substrings, left to right, not overlapping.  FutureDateMatchAt
\* takes the match that starts at k, the leftmost position from i on where
\* the pattern matches (0 when it matches nowhere), and goes on after it.
RECURSIVE FutureDateMatches(_, _)
RECURSIVE FutureDateMatchAt(_, _, _)
FutureDateMatches(s, i) ==
  FutureDateMatchAt(s,
    FirstIn({k \in i..Len(s) : FutureDatePatternEnd(s, k, TRUE) # 0}), 0)

FutureDateMatchAt(s, k, e) ==
  IF k = 0 THEN <<>>
  ELSE IF e = 0 THEN FutureDateMatchAt(s, k, FutureDatePatternEnd(s, k, TRUE))
  ELSE <<SubSeq(s, k, e - 1)>> \o FutureDateMatches(s, e)

(***************************************************************************)
(* datetime: strptime, strftime and comparison.  A datetime is a record    *)
(* [Y, m, d, tod]; tod is the time of day (0 is midnight).                 *)
(***************************************************************************)

\* Python's None for a parsed_date (no datetime has year 0).
NoneDate == [Y |-> 0, m |-> 0, d |-> 0, tod |-> 0]


DaysInMonth(y, m) ==
  IF m = 2
  THEN (IF (y % 4 = 0) /\ ((y % 100 # 0) \/ (y % 400 = 0)) THEN 29 ELSE 28)
  ELSE IF m \in {4, 6, 9, 11} THEN 30 ELSE 31

\* datetime's own range check (MINYEAR is 1): a ValueError otherwise.
ValidDate(dt) ==
  /\ dt.Y >= 1 /\ dt.Y <= 9999
  /\ dt.m >= 1 /\ dt.m <= 12
  /\ dt.d >= 1 /\ dt.d <= DaysInMonth(dt.Y, dt.m)

\* a < b on datetimes.
DateLess(a, b) ==
  \/ a.Y < b.Y
  \/ a.Y = b.Y /\ a.m < b.m
  \/ a.Y = b.Y /\ a.m = b.m /\ a.d < b.d
  \/ a.Y = b.Y /\ a.m = b.m /\ a.d = b.d /\ a.tod < b.tod

\* a when it is a datetime, else b.
FirstDate(a, b) == IF a # NoneDate THEN a ELSE b

\* The field of a directive set to the number read; %y is a year of the
\* century the POSIX rule gives (69-99 are 19xx, 0-68 are 20xx).
SetField(acc, k, v) ==
  IF k = "d" THEN [acc EXCEPT !.d = v]
  ELSE IF k = "m" THEN [acc EXCEPT !.m = v]
  ELSE IF k = "Y" THEN [acc EXCEPT !.Y = v]
  ELSE [acc EXCEPT !.Y = IF v <= 68 THEN 2000 + v ELSE 1900 + v]

\* The regular expression strptime builds from the format fmt (from f on),
\* matched against s from i with the fields read so far in acc: the fields,
\* or NoneDate when it does not match the whole of s.  %d is
\* 3[0-1]|[1-2]\d|0[1-9]|[1-9]| [1-9], %m is 1[0-2]|0[1-9]|[1-9], %Y is
\* \d\d\d\d, %y is \d\d, %B a month name, white space \s+, all ignoring case.
\* StrpNumber reads the n digits at i as directive k when their value is in
\* lo..hi; StrpDirective matches directive k at i.
RECURSIVE StrpMatch(_, _, _, _, _)
RECURSIVE StrpDirective(_, _, _, _, _, _)
RECURSIVE StrpNumber(_, _, _, _, _, _, _, _, _)
StrpMatch(s, i, fmt, f, acc) ==
  IF f > Len(fmt) THEN (IF i = Len(s) + 1 THEN acc ELSE NoneDate)
  ELSE IF Ch(fmt, f) = "%" THEN StrpDirective(s, i, fmt, f, acc, Ch(fmt, f + 1))
  ELSE IF Ch(fmt, f) \in SpaceChars
       THEN (IF SpaceRun(s, i) >= 1
             THEN StrpMatch(s, i + SpaceRun(s, i), fmt, f + SpaceRun(fmt, f), acc)
             ELSE NoneDate)
  ELSE IF LitAt(s, i, Ch(fmt, f), TRUE) THEN StrpMatch(s, i + 1, fmt, f + 1, acc)
  ELSE NoneDate

StrpNumber(s, i, fmt, f, acc, k, n, lo, hi) ==
  IF DigitRun(s, i) >= n /\ NumVal(s, i, n) >= lo /\ NumVal(s, i, n) <= hi
  THEN StrpMatch(s, i + n, fmt, f + 2, SetField(acc, k, NumVal(s, i, n)))
  ELSE NoneDate

StrpDirective(s, i, fmt, f, acc, k) ==
  IF k = "d"
  THEN FirstDate(StrpNumber(s, i, fmt, f, acc, k, 2, 1, 31),
         FirstDate(StrpNumber(s, i, fmt, f, acc, k, 1, 1, 9),
                   IF Ch(s, i) = " "
                   THEN StrpNumber(s, i + 1, fmt, f, acc, k, 1, 1, 9)
                   ELSE NoneDate))
  ELSE IF k = "m"
  THEN FirstDate(StrpNumber(s, i, fmt, f, acc, k, 2, 1, 12),
                 StrpNumber(s, i, fmt, f, acc, k, 1, 1, 9))
  ELSE IF k = "Y" THEN StrpNumber(s, i, fmt, f, acc, k, 4, 0, 9999)
  ELSE IF k = "y" THEN StrpNumber(s, i, fmt, f, acc, k, 2, 0, 99)
  ELSE \* %B
    IF MonthAt(s, i, TRUE) = 0 THEN NoneDate
    ELSE StrpMatch(s, i + Len(MonthNames[MonthAt(s, i, TRUE)]), fmt, f + 2,
                   [acc EXCEPT !.m = MonthAt(s, i, TRUE)])

\* What strptime reads from s under fmt before it builds the datetime: the
\* fields (year 1900, month 1, day 1 where the format has none), or NoneDate
\* when s does not match the format.
StrpFields(s, fmt) ==
  StrpMatch(s, 1, fmt, 1, [Y |-> 1900, m |-> 1, d |-> 1, tod |-> 0])

\* The datetime built from the fields read; NoneDate stands for the
\* ValueError raised when there are none or they are no date.
DateOrError(fields) == IF ValidDate(fields) THEN fields ELSE NoneDate

\* datetime.strptime(s, fmt): the datetime, NoneDate for a ValueError.
Strptime(s, fmt) == DateOrError(StrpFields(s, fmt))

\* The decimal digits of n, at least w of them (zero padded).
RECURSIVE NatStr(_, _)
NatStr(n, w) ==
  IF n < 10 /\ w <= 1 THEN DigitStr[n + 1]
  ELSE NatStr(n \div 10, w - 1) \o DigitStr[(n % 10) + 1]

\* dt.strftime("%d %B %Y")
Strftime(dt) == NatStr(dt.d, 2) \o " " \o MonthNames[dt.m] \o " " \o NatStr(dt.Y, 1)

(***************************************************************************)
(* String helpers of the Python runtime.                                   *)
(***************************************************************************)

\* The part of s from the first to the last of the positions ps.
Between(s, ps) == IF ps = {} THEN "" ELSE SubSeq(s, MinOf(ps), MaxOf(ps))

\* str.strip()
Strip(s) == Between(s, {k \in 1..Len(s) : Ch(s, k) \notin SpaceChars})

\* s.replace(c, "") for a character c, from position i; RemoveCharAt goes on
\* from the next c, at k.
RECURSIVE RemoveCharFrom(_, _, _)
RECURSIVE RemoveCharAt(_, _, _, _)
RemoveCharFrom(s, i, c) ==
  RemoveCharAt(s, i, c, FirstIn({k \in i..Len(s) : Ch(s, k) = c}))

RemoveCharAt(s, i, c, k) ==
  IF k = 0 THEN SubSeq(s, i, Len(s))
  ELSE SubSeq(s, i, k - 1) \o RemoveCharFrom(s, k + 1, c)

RemoveChar(s, c) == RemoveCharFrom(s, 1, c)

\* re.sub(r'(\d+)(st|nd|rd|th)', r'\1', s) from position i: a suffix that
\* follows a digit is removed; no flags, so only one in lower case.
\* RemoveOrdinalAt goes on from the next such suffix, at k.
RECURSIVE RemoveOrdinals(_, _)
RECURSIVE RemoveOrdinalAt(_, _, _)
RemoveOrdinals(s, i) ==
  RemoveOrdinalAt(s, i,
    FirstIn({k \in i..Len(s) :
               Ch(s, k - 1) \in DigitChars /\ OrdinalAt(s, k, FALSE)}))

RemoveOrdinalAt(s, i, k) ==
  IF k = 0 THEN SubSeq(s, i, Len(s))
  ELSE SubSeq(s, i, k - 1) \o RemoveOrdinals(s, k + 2)

IndexIn(str, c) == CHOOSE k \in 1..Len(str) : Ch(str, k) = c

\* ord(c) for the characters strftime("%d %B %Y") writes: the space, the
\* digits and the letters.
Ord(c) ==
  IF c = " " THEN 32
  ELSE IF c \in DigitChars THEN 48 + DigitMap[c]
  ELSE IF c \in UpperChars THEN 64 + IndexIn("ABCDEFGHIJKLMNOPQRSTUVWXYZ", c)
  ELSE 96 + IndexIn("abcdefghijklmnopqrstuvwxyz", c)

\* a < b on str: by code point, a proper prefix first.
RECURSIVE StrLess(_, _)
StrLess(a, b) ==
  IF b = "" THEN FALSE
  ELSE IF a = "" THEN TRUE
  ELSE IF Ch(a, 1) = Ch(b, 1)
       THEN StrLess(SubSeq(a, 2, Len(a)), SubSeq(b, 2, Len(b)))
  ELSE Ord(Ch(a, 1)) < Ord(Ch(b, 1))

\* sorted(list(S)) for a set S of strings.
RECURSIVE SortedStrings(_)
SortedStrings(S) ==
  IF S = {} THEN <<>>
  ELSE LET least == CHOOSE x \in S : \A y \in S : x = y \/ StrLess(x, y)
       IN <<least>> \o SortedStrings(S \ {least})

\* set(seq)
SetOf(seq) == {seq[k] : k \in DOMAIN seq}

(***************************************************************************)
(* extract_future_dates                                                    *)
(***************************************************************************)

formats_to_try ==
  <<"%d %B %Y", "%B %d, %Y", "%B %Y",
    "%Y-%m-%d", "%d/%m/%Y", "%d-%m-%Y", "%d.%m.%Y",
    "%d/%m/%y", "%d-%m-%y", "%d.%m.%y">>

\* The for loop over the formats, from the k-th on: the first format
\* strptime accepts decides, None when every one raises ValueError.
RECURSIVE TryFormats(_, _, _)
TryFormats(s, fmts, k) ==
  IF k > Len(fmts) THEN NoneDate
  ELSE FirstDate(Strptime(s, fmts[k]), TryFormats(s, fmts, k + 1))

cleaned_date_str(date_str) == RemoveOrdinals(date_str, 1)

\* parsed_date of one match of the pattern.
FutureParsed(match) ==
  TryFormats(RemoveChar(cleaned_date_str(Strip(match)), ","), formats_to_try, 1)

\* A filter that keeps the instant of the call too.
KeepFromNow(parsed_date, current_date) ==
  IF parsed_date # NoneDate /\ ~DateLess(parsed_date, current_date)
  THEN <<Strftime(parsed_date)>> ELSE <<>>

\* if parsed_date and parsed_date > current_date: what is appended.
KeepFuture(parsed_date, current_date) ==
  IF parsed_date # NoneDate /\ DateLess(current_date, parsed_date)
  THEN <<Strftime(parsed_date)>> ELSE <<>>

\* dates_found: the loop over the matches, from the k-th on.
RECURSIVE dates_found(_, _, _)
dates_found(matches, k, current_date) ==
  IF k > Len(matches) THEN <<>>
  ELSE KeepFuture(FutureParsed(matches[k]), current_date)
         \o dates_found(matches, k + 1, current_date)

\* return unique_dates, len(unique_dates)
DatesAndCount(unique_dates) == [dates |-> unique_dates, count |-> Len(unique_dates)]

\* extract_future_dates(text) called at the instant current_date.
extract_future_dates(txt, current_date) ==
  DatesAndCount(
    SortedStrings(SetOf(dates_found(FutureDateMatches(txt, 1), 1, current_date))))

(***************************************************************************)
(* extract_case_numbers                                                    *)
(***************************************************************************)

\* [A-Z.\(\) ] under re.IGNORECASE
CasePrefixChars == UpperChars \cup LowerChars \cup {".", "(", ")", " "}

\* [\/\-]?\d{4}\b from p: the separator is taken when it is there, and
\* given back when the rest then fails.
CaseSepYearEnd(s, p) ==
  FirstOf(YearEnd(s, SkipOne(s, p, {"/", "-"})), YearEnd(s, p))

\* \d+[\/\-]?\d{4}\b from r: \d+ is greedy, so the longest run of digits that
\* lets the rest match is taken.
CaseDigitsEnd(s, r) ==
  IF {k \in 1..DigitRun(s, r) : CaseSepYearEnd(s, r + k) # 0} = {} THEN 0
  ELSE CaseSepYearEnd(s,
         r + MaxOf({k \in 1..DigitRun(s, r) : CaseSepYearEnd(s, r + k) # 0}))

\* \.?
SkipDot(s, p) == IF Ch(s, p) = "." THEN p + 1 ELSE p

\* No\.?\s*\d+[\/\-]?\d{4}\b from p.
CaseNoEnd(s, p) ==
  IF LitAt(s, p, "No", TRUE)
  THEN CaseDigitsEnd(s, SkipSpaces(s, SkipDot(s, p + 2))) ELSE 0

\* The lengths of prefix, of those up to longest, after which the rest of
\* the pattern matches.
CasePrefixes(s, i, longest) == {n \in 0..longest : CaseNoEnd(s, i + n) # 0}

\* The rest of the pattern after the longest of the prefixes ps: the
\* optional prefix is greedy, no prefix is tried last.
CaseEndAfter(s, i, ps) == IF ps = {} THEN 0 ELSE CaseNoEnd(s, i + MaxOf(ps))

\* The whole pattern \b(?:[A-Z.\(\) ]+)?No\.?\s*\d+[\/\-]?\d{4}\b matched at
\* i.
CasePatternEnd(s, i) ==
  IF ~WordBoundary(s, i) THEN 0
  ELSE CaseEndAfter(s, i, CasePrefixes(s, i, Run(s, i, CasePrefixChars)))

\* re.findall(pattern, text, flags=re.IGNORECASE) from position i;
\* CaseMatchAt takes the match that starts at k, the leftmost position from
\* i on where the pattern matches (0 when it matches nowhere), and goes on
\* after it.
RECURSIVE CaseFindall(_, _)
RECURSIVE CaseMatchAt(_, _, _)
CaseFindall(s, i) ==
  CaseMatchAt(s, FirstIn({k \in i..Len(s) : CasePatternEnd(s, k) # 0}), 0)

CaseMatchAt(s, k, e) ==
  IF k = 0 THEN <<>>
  ELSE IF e = 0 THEN CaseMatchAt(s, k, CasePatternEnd(s, k))
  ELSE <<SubSeq(s, k, e - 1)>> \o CaseFindall(s, e)

\* set([m.strip() for m in matches if m.strip()])
case_matches(txt) == {Strip(m) : m \in SetOf(CaseFindall(txt, 1))} \ {""}

\* The lists without repetition of the elements of S: list(S) gives one of
\* them, in the set's iteration order, which the language leaves open.
ListsOf(S) ==
  {q \in [1..Cardinality(S) -> S] : \A a, b \in DOMAIN q : a # b => q[a] # q[b]}

\* extract_case_numbers(text): the pairs (case_numbers, len(case_numbers)) it
\* may return.
extract_case_numbers(txt) ==
  {[list |-> q, count |-> Len(q)] : q \in ListsOf(case_matches(txt))}

(***************************************************************************)
(* generate_case_timeline                                                  *)
(***************************************************************************)

\* \d{1,2}\s*(?:January|...)[,]?\s*\d{4}
TimelineDayMonthYearEnd(s, i, ic) ==
  CommaYearEnd(s, SkipMonth(s, SkipSpaces(s, SkipDay(s, i)), ic))

\* date_pattern of generate_case_timeline matched at i.
TimelinePatternEnd(s, i, ic) ==
  IF ~WordBoundary(s, i) THEN 0
  ELSE FirstEnd(<<TimelineDayMonthYearEnd(s, i, ic), MonthDayYearEnd(s, i, ic),
                  MonthYearEnd(s, i, ic, 0), IsoEnd(s, i)>>)

\* re.split(r'(?<=[.!?])\s+', text) from position i, where a sentence
\* begins; SplitAt goes on from the next white space that follows a terminal
\* punctuation mark, at k.
RECURSIVE SplitSentences(_, _)
RECURSIVE SplitAt(_, _, _)
SplitSentences(s, i) ==
  SplitAt(s, i,
    FirstIn({k \in i..Len(s) :
               Ch(s, k) \in SpaceChars /\ Ch(s, k - 1) \in {".", "!", "?"}}))

SplitAt(s, i, k) ==
  IF k = 0 THEN <<SubSeq(s, i, Len(s))>>
  ELSE <<SubSeq(s, i, k - 1)>> \o SplitSentences(s, k + SpaceRun(s, k))

\* The leftmost position from i on where date_pattern matches, 0 when it
\* matches nowhere.
TimelineStart(s, i, ic) ==
  FirstIn({k \in i..Len(s) : TimelinePatternEnd(s, k, ic) # 0})

\* The match that starts at k, as <<start, end>>.
SpanFrom(s, k) == IF k = 0 THEN <<0, 0>> ELSE <<k, TimelinePatternEnd(s, k, TRUE)>>

\* re.search(date_pattern, sentence, flags=re.IGNORECASE): the leftmost
\* match as <<start, end>>, <<0, 0>> when there is none.
TimelineSearch(s) == SpanFrom(s, TimelineStart(s, 1, TRUE))

\* re.sub(date_pattern, '', sentence) from i: no flags, so a month written
\* in another case than the pattern's is not removed.  RemoveDateAt goes on
\* from the next match, at k.
RECURSIVE RemoveDates(_, _)
RECURSIVE RemoveDateAt(_, _, _)
RemoveDates(s, i) == RemoveDateAt(s, i, TimelineStart(s, i, FALSE))

RemoveDateAt(s, i, k) ==
  IF k = 0 THEN SubSeq(s, i, Len(s))
  ELSE SubSeq(s, i, k - 1) \o RemoveDates(s, TimelinePatternEnd(s, k, FALSE))

\* re.sub(r'\s+', ' ', s) from i; CollapseAt goes on from the next white
\* space, at k.
RECURSIVE CollapseSpaces(_, _)
RECURSIVE CollapseAt(_, _, _)
CollapseSpaces(s, i) ==
  CollapseAt(s, i, FirstIn({k \in i..Len(s) : Ch(s, k) \in SpaceChars}))

CollapseAt(s, i, k) ==
  IF k = 0 THEN SubSeq(s, i, Len(s))
  ELSE SubSeq(s, i, k - 1) \o " " \o CollapseSpaces(s, k + SpaceRun(s, k))

\* s.replace(' - ', '; ') from i; ReplaceDashAt goes on from the next ' - ',
\* at k.
RECURSIVE ReplaceDashes(_, _)
RECURSIVE ReplaceDashAt(_, _, _)
ReplaceDashes(s, i) ==
  ReplaceDashAt(s, i, FirstIn({k \in i..Len(s) : LitAt(s, k, " - ", FALSE)}))

ReplaceDashAt(s, i, k) ==
  IF k = 0 THEN SubSeq(s, i, Len(s))
  ELSE SubSeq(s, i, k - 1) \o "; " \o ReplaceDashes(s, k + 3)

timeline_formats == <<"%d %B %Y", "%B %d %Y", "%B %Y", "%Y-%m-%d">>

\* The year of month_match, re.match of (January|...)\s+(\d{4}) at the start
\* of date_str ignoring case, from the position p after the month: the
\* position of its four digits, 0 when month_match is None.
MonthMatchYear(date_str, p) == TakeDigits(date_str, SkipSpacesMin(date_str, p, 1), 4) - 4

\* f"15 {month_name} {year}" for the month ending before p and the year
\* starting at y.
FifteenthOf(date_str, p, y) ==
  "15 " \o SubSeq(date_str, 1, p - 1) \o " " \o SubSeq(date_str, y, y + 3)

\* A ValueError raised outside any try block.
ValueError == [Y |-> -1, m |-> 0, d |-> 0, tod |-> 0]

\* The datetime, or the ValueError that strptime's NoneDate stands for.
DateOrRaise(dt) == IF dt = NoneDate THEN ValueError ELSE dt

\* Lines 267-271, for a date_str none of the formats parsed: None when
\* month_match is None (y < 1), else the result of the unguarded strptime.
MonthYearFallback(date_str, p, y) ==
  IF p = 0 \/ y < 1 THEN NoneDate
  ELSE DateOrRaise(Strptime(FifteenthOf(date_str, p, y), "%d %B %Y"))

\* Lines 257-271: parsed_date after the loop over the formats gave tried.
ParsedOrFallback(date_str, tried) ==
  IF tried # NoneDate THEN tried
  ELSE MonthYearFallback(date_str, SkipMonth(date_str, 1, TRUE),
                         MonthMatchYear(date_str, SkipMonth(date_str, 1, TRUE)))

\* parsed_date of the sentence's date_str: a datetime, NoneDate, ValueError.
TimelineParsed(date_str) ==
  ParsedOrFallback(date_str, TryFormats(RemoveChar(date_str, ","), timeline_formats, 1))

EventMinChars == 5

event_text(sentence) ==
  Strip(ReplaceDashes(CollapseSpaces(Strip(RemoveDates(sentence, 1)), 1), 1))

Skipped == [kind |-> "skip"]

\* Lines 276-284: the event of a sentence whose date parsed.
EventOf(parsed_date, date_str, event, current_date) ==
  IF Len(event) < EventMinChars THEN Skipped
  ELSE [kind |-> "event", parsed_date |-> parsed_date, date_str |-> date_str,
        event_text |-> event,
        status |-> IF DateLess(parsed_date, current_date)
                   THEN "Completed" ELSE "Upcoming"]

\* The loop body from line 257 on: "skip" for continue, "raise" for the
\* ValueError that leaves the function, else the event appended.
DatedEvent(sentence, date_str, parsed_date, current_date) ==
  IF parsed_date = ValueError THEN [kind |-> "raise"]
  ELSE IF parsed_date = NoneDate THEN Skipped
  ELSE EventOf(parsed_date, date_str, event_text(sentence), current_date)

\* The loop body from line 255 on, for the match found in the sentence.
MatchedEvent(sentence, date_str, current_date) ==
  DatedEvent(sentence, date_str, TimelineParsed(date_str), current_date)

\* The loop body for a sentence where re.search gave found.
FoundEvent(sentence, found, current_date) ==
  IF found[1] = 0 THEN Skipped
  ELSE MatchedEvent(sentence, Strip(SubSeq(sentence, found[1], found[2] - 1)),
                    current_date)

\* The loop body for one sentence.
SentenceEvent(sentence, current_date) ==
  FoundEvent(sentence, TimelineSearch(sentence), current_date)

\* The results of the loop body over the sentences, in order.
SentenceEvents(sentences, current_date) ==
  [k \in DOMAIN sentences |-> SentenceEvent(sentences[k], current_date)]

LoopResults(txt, current_date) ==
  SentenceEvents(SplitSentences(txt, 1), current_date)

IsEvent(r) == r.kind = "event"

\* list.sort(key=lambda x: x[0]) is stable: e goes after the events that are
\* not later than it.
RECURSIVE SortedInsert(_, _)
SortedInsert(sorted, e) ==
  IF sorted = <<>> THEN <<e>>
  ELSE IF DateLess(e.parsed_date, Head(sorted).parsed_date)
       THEN <<e>> \o sorted
  ELSE <<Head(sorted)>> \o SortedInsert(Tail(sorted), e)

RECURSIVE SortByDate(_, _)
SortByDate(events, k) ==
  IF k = 0 THEN <<>>
  ELSE SortedInsert(SortByDate(events, k - 1), events[k])

\* events after events.sort(...), for the events the loop appended.
SortedEvents(events) == SortByDate(events, Len(events))

MaxEventChars == 120

short_event(event) ==
  IF Len(event) > MaxEventChars
  THEN SubSeq(event, 1, MaxEventChars) \o "..." ELSE event

RECURSIVE TableRows(_, _)
TableRows(events, k) ==
  IF k > Len(events) THEN ""
  ELSE "| " \o events[k].date_str \o " | " \o short_event(events[k].event_text)
         \o " | " \o events[k].status \o " |\n" \o TableRows(events, k + 1)

NoTimeline == "No timeline events detected."

\* Lines 286-299: the string returned for the sorted events.
RenderTimeline(events) ==
  IF events = <<>> THEN NoTimeline
  ELSE "| **Date** | **Event** | **Status** |\n"
         \o "|-----------|------------|-------------|\n"
         \o TableRows(events, 1)

\* What the function does after the loop gave results.
TimelineResult(results) ==
  IF \E k \in DOMAIN results : results[k].kind = "raise"
  THEN [raised |-> TRUE, value |-> "ValueError"]
  ELSE [raised |-> FALSE,
        value |-> RenderTimeline(SortedEvents(SelectSeq(results, IsEvent)))]

\* generate_case_timeline(text) called at the instant current_date: the
\* string returned, or the exception raised.  The status texts are written
\* without the source's leading emoji.
generate_case_timeline(txt, current_date) ==
  TimelineResult(LoopResults(txt, current_date))

(***************************************************************************)
(* extract_structured_summary.  A JSON value is a record tagged with its   *)
(* type; a dict is a function from its keys to values.                     *)
(***************************************************************************)

JsonNull == [type |-> "null"]

JsonStr(v) == [type |-> "str", v |-> v]

JsonList(items) == [type |-> "list", items |-> items]

\* dict()
EmptyDict == [k \in {} |-> JsonNull]

\* Raised by json.loads for a text that is not JSON.
JSONDecodeError == [type |-> "JSONDecodeError"]

\* json.loads on the spans the capability's responses of this model hold;
\* any other text is not a JSON document.
JsonLoads(span) ==
  CASE span = "{\"Sections_Invoked\": [\"302 IPC\", \"34 IPC\"]}" ->
         [Sections_Invoked |-> JsonList(<<"302 IPC", "34 IPC">>)]
    [] span = "{\"Sections_Invoked\": []}" ->
         [Sections_Invoked |-> JsonList(<<>>)]
    [] span = "{\"Sections_Invoked\": null}" ->
         [Sections_Invoked |-> JsonNull]
    [] span = "{\"Case_Name\": \"X\"}" ->
         [Case_Name |-> JsonStr("X")]
    [] span = "{}" -> EmptyDict
    [] OTHER -> JSONDecodeError

\* The positions of character c in s.
PositionsOf(s, c) == {k \in 1..Len(s) : Ch(s, k) = c}

\* re.search(r'\{.*\}', s, re.DOTALL): from the first "{" to the last "}"
\* after it, as <<start, end>>; <<0, 0>> when there is no such span.
SpanBetween(opens, closes) ==
  IF opens = {} \/ closes = {} \/ MaxOf(closes) < MinOf(opens)
  THEN <<0, 0>>
  ELSE <<MinOf(opens), MaxOf(closes)>>

BraceSpan(s) == SpanBetween(PositionsOf(s, "{"), PositionsOf(s, "}"))

NoJsonMarker == [error |-> JsonStr("No structured JSON found")]

\* An outcome of model.generate_content: the response's text, or a raised
\* exception.
Answer(txt) == [raises |-> FALSE, text |-> txt]

CapabilityFailure == [raises |-> TRUE, text |-> ""]

\* The HTTPException of lines 160-161.
ExtractionFailed == [raised |-> TRUE, detail |-> "Gemini extraction failed"]

\* return json.loads(match.group(0)), inside the try block.
LoadedOrFailed(loaded) ==
  IF loaded = JSONDecodeError THEN ExtractionFailed
  ELSE [raised |-> FALSE, value |-> loaded]

\* An extractor for which a response without a span is a failure too.
SpanRequired(txt, found) ==
  IF found[1] = 0 THEN ExtractionFailed
  ELSE LoadedOrFailed(JsonLoads(SubSeq(txt, found[1], found[2])))

\* Lines 155-159, for the span re.search found in the response's text.
SpanResult(txt, found) ==
  IF found[1] = 0 THEN [raised |-> FALSE, value |-> NoJsonMarker]
  ELSE LoadedOrFailed(JsonLoads(SubSeq(txt, found[1], found[2])))

\* extract_structured_summary(text) when model.generate_content ends as
\* answer: the dict returned, or the HTTPException raised.
extract_structured_summary(answer) ==
  IF answer.raises THEN ExtractionFailed
  ELSE SpanResult(answer.text, BraceSpan(answer.text))

\* structured_data.get("Sections_Invoked", [])
GetSections(structured_data) ==
  IF "Sections_Invoked" \in DOMAIN structured_data
  THEN structured_data["Sections_Invoked"] ELSE JsonList(<<>>)

\* len(v) raises TypeError for a value that has no length.

JsonLen(v) == IF v.type = "list" THEN Len(v.items) ELSE Len(v.v)

\* The evaluation of
\*   len(structured_data.get("Sections_Invoked", [])) if structured_data else 0
\* raises.
SectionsCountRaises(structured_data) ==
  /\ DOMAIN structured_data # {}
  /\ GetSections(structured_data).type \notin {"list", "str"}

sections_found_count(structured_data) ==
  IF DOMAIN structured_data # {} THEN JsonLen(GetSections(structured_data)) ELSE 0

(***************************************************************************)
(* extract_text_from_pdf.  An uploaded file is a record [readable,         *)
(* corrupt, pages]: whether file.read() succeeds, whether PdfReader fails  *)
(* on it, and what page.extract_text() gives for each of its pages.        *)
(***************************************************************************)

RECURSIVE JoinPages(_, _)
JoinPages(pages, k) ==
  IF k > Len(pages) THEN ""
  ELSE (IF pages[k] # "" THEN pages[k] \o "\n" ELSE "") \o JoinPages(pages, k + 1)

\* extract_text_from_pdf(pdf_path) for a file PdfReader can read.
extract_text_from_pdf(file) == Strip(JoinPages(file.pages, 1))

(***************************************************************************)
(* The inputs of the model.                                                *)
(***************************************************************************)

\* The longest batch of one request.
MaxFiles == 2

\* The most sentences of a text given to the extractors alone.
MaxSentences == 2

UploadedFiles ==
  { [readable |-> FALSE, corrupt |-> FALSE, pages |-> <<>>],
    [readable |-> TRUE, corrupt |-> TRUE, pages |-> <<>>],
    [readable |-> TRUE, corrupt |-> FALSE, pages |-> <<"", " ">>],
    [readable |-> TRUE, corrupt |-> FALSE,
     pages |-> <<"Case No. 45/2021 was heard on 21 October 2099.">>],
    [readable |-> TRUE, corrupt |-> FALSE,
     pages |-> <<"Filed on 2 May 2024.", "", "Order of 2020-01-05 - final.">>],
    [readable |-> TRUE, corrupt |-> FALSE,
     pages |-> <<"Filed in March 0000 at court.">>] }

Authorizations == {"", "Bearer expired", "Bearer good"}

\* The instants datetime.now() gives.
Nows == { [Y |-> 2026, m |-> 3, d |-> 12, tod |-> 1],
          [Y |-> 2026, m |-> 3, d |-> 15, tod |-> 0] }

\* What model.generate_content may do on the extraction prompt.
CapabilityAnswers ==
  { CapabilityFailure,
    Answer("I could not find any structured details."),
    Answer("} nothing {"),
    Answer("Here is the data: {\"Sections_Invoked\": [\"302 IPC\", \"34 IPC\"]} hope this helps"),
    Answer("{\"Sections_Invoked\": []}"),
    Answer("{\"Sections_Invoked\": null}"),
    Answer("{\"Case_Name\": \"X\"}"),
    Answer("{}"),
    Answer("{Case_Name: X}") }

(***************************************************************************)
(* upload_and_summarize: the state of one request.                         *)
(***************************************************************************)

VARIABLES
  files,            \* the uploaded batch
  authorization,    \* the Authorization header
  now,              \* the clock read by datetime.now()
  pc,               \* the handler's position
  i,                \* the index in files of the file being processed
  temp_path,        \* None (0) or the name of the file's temporary file
  disk,             \* the temporary files that exist
  text,             \* locals of the loop body
  summary,
  gemini_response,  \* the capability's answer to the extraction prompt
  structured_data,
  future_dates,     \* the pair (future_dates, date_count)
  case_numbers,     \* the pair (case_numbers, case_number_count)
  timeline_table,
  metadata,
  summaries,        \* the list the handler returns
  db,               \* the documents set in the "summaries" collection
  exc,              \* the exception propagating out of the try block
  http_response,    \* what the caller receives
  invoked           \* history: the stages called, as <<file index, stage>>

vars ==
  <<files, authorization, now, pc, i, temp_path, disk, text, summary,
    gemini_response, structured_data, future_dates, case_numbers,
    timeline_table, metadata, summaries, db, exc, http_response, invoked>>

inputs == <<files, authorization, now>>

locals ==
  <<text, summary, gemini_response, structured_data, future_dates,
    case_numbers, timeline_table, metadata>>

None == 0

NoException == [type |-> "none", detail |-> ""]

Raised(type, detail) == [type |-> type, detail |-> detail]

Pending == [status |-> 0, summaries |-> <<>>]

\* The name of the k-th uploaded file.
FileName(k) == "file" \o NatStr(k, 1) \o ".pdf"

NoMetadata == [upcoming_dates |-> 0, sections |-> 0, case_numbers |-> 0, list |-> <<>>]

Init ==
  /\ files \in UNION {[1..n -> UploadedFiles] : n \in 1..MaxFiles}
  /\ authorization \in Authorizations
  /\ now \in Nows
  /\ pc = "auth"
  /\ i = 1
  /\ temp_path = None
  /\ disk = {}
  /\ text = ""
  /\ summary = ""
  /\ gemini_response = Answer("")
  /\ structured_data = EmptyDict
  /\ future_dates = [dates |-> <<>>, count |-> 0]
  /\ case_numbers = [list |-> <<>>, count |-> 0]
  /\ timeline_table = ""
  /\ metadata = NoMetadata
  /\ summaries = <<>>
  /\ db = <<>>
  /\ exc = NoException
  /\ http_response = Pending
  /\ invoked = {}

\* An exception leaves the try block: the finally clause runs next.
Raise(type, detail) ==
  /\ exc' = Raised(type, detail)
  /\ pc' = "finally"

\* verify_firebase_token(id_token) returns a user: auth.verify_id_token
\* accepts the token.
verify_firebase_token(id_token) == id_token = "good"

\* Lines 312-321: the Authorization header and the Firebase token.
Authenticate ==
  /\ pc = "auth"
  /\ IF ~LitAt(authorization, 1, "Bearer ", FALSE)
     THEN /\ http_response' = [status |-> 401, summaries |-> <<>>]
          /\ pc' = "done"
     ELSE IF ~verify_firebase_token(SubSeq(authorization, 8, Len(authorization)))
     THEN /\ http_response' = [status |-> 403, summaries |-> <<>>]
          /\ pc' = "done"
     ELSE /\ pc' = "loop"
          /\ UNCHANGED http_response
  /\ UNCHANGED <<inputs, i, temp_path, disk, locals, summaries, db, exc, invoked>>

\* for file in files: temp_path = None
NextFile ==
  /\ pc = "loop"
  /\ i <= Len(files)
  /\ temp_path' = None
  /\ pc' = "save"
  /\ UNCHANGED <<inputs, i, disk, locals, summaries, db, exc, http_response, invoked>>

\* return {"summaries": summaries}
ReturnSummaries ==
  /\ pc = "loop"
  /\ i > Len(files)
  /\ http_response' = [status |-> 200, summaries |-> summaries]
  /\ pc' = "done"
  /\ UNCHANGED <<inputs, i, temp_path, disk, locals, summaries, db, exc, invoked>>

\* Whether temp_path has been assigned when the with block is left: the
\* assignment follows temp.write(await file.read()).
PathAssigned(file) == file.readable

\* Lines 327-329: NamedTemporaryFile(delete=False) creates the file, named
\* here by the index i; the upload is read and written into it.
SaveTempFile ==
  /\ pc = "save"
  /\ disk' = disk \cup {i}
  /\ IF PathAssigned(files[i])
     THEN /\ temp_path' = i
          /\ pc' = "extract"
          /\ UNCHANGED exc
     ELSE /\ Raise("OSError", "file.read() failed")
          /\ UNCHANGED temp_path
  /\ UNCHANGED <<inputs, i, locals, summaries, db, http_response, invoked>>

\* A handler that skips no file.
SkipsNoFile(txt) == FALSE

\* if not text: continue
SkipsFile(txt) == txt = ""

\* Lines 332-335.
ExtractText ==
  /\ pc = "extract"
  /\ invoked' = invoked \cup {<<i, "extract_text_from_pdf">>}
  /\ IF files[i].corrupt
     THEN /\ Raise("HTTPException", "PDF extraction failed")
          /\ UNCHANGED text
     ELSE /\ text' = extract_text_from_pdf(files[i])
          /\ pc' = IF SkipsFile(text') THEN "finally" ELSE "summarize"
          /\ UNCHANGED exc
  /\ UNCHANGED <<inputs, i, temp_path, disk, summary, gemini_response,
                 structured_data, future_dates, case_numbers, timeline_table,
                 metadata, summaries, db, http_response>>

\* summary = summarize_with_gemini(text): the capability answers or fails.
Summarize ==
  /\ pc = "summarize"
  /\ invoked' = invoked \cup {<<i, "summarize_with_gemini">>}
  /\ \E answers \in BOOLEAN :
       IF answers
       THEN /\ summary' = "Summary of " \o FileName(i)
            /\ pc' = "structured"
            /\ UNCHANGED exc
       ELSE /\ Raise("HTTPException", "Gemini summarization failed")
            /\ UNCHANGED summary
  /\ UNCHANGED <<inputs, i, temp_path, disk, text, gemini_response,
                 structured_data, future_dates, case_numbers, timeline_table,
                 metadata, summaries, db, http_response>>

\* structured_data = extract_structured_summary(text)
ExtractStructured ==
  /\ pc = "structured"
  /\ invoked' = invoked \cup {<<i, "extract_structured_summary">>}
  /\ \E answer \in CapabilityAnswers :
       /\ gemini_response' = answer
       /\ \E r \in {extract_structured_summary(answer)} :
            IF r.raised
            THEN /\ Raise("HTTPException", r.detail)
                 /\ UNCHANGED structured_data
            ELSE /\ structured_data' = r.value
                 /\ pc' = "dates"
                 /\ UNCHANGED exc
  /\ UNCHANGED <<inputs, i, temp_path, disk, text, summary, future_dates,
                 case_numbers, timeline_table, metadata, summaries, db,
                 http_response>>

\* future_dates, date_count = extract_future_dates(text)
MineDates ==
  /\ pc = "dates"
  /\ invoked' = invoked \cup {<<i, "extract_future_dates">>}
  /\ future_dates' = extract_future_dates(text, now)
  /\ pc' = "cases"
  /\ UNCHANGED <<inputs, i, temp_path, disk, text, summary, gemini_response,
                 structured_data, case_numbers, timeline_table, metadata,
                 summaries, db, exc, http_response>>

\* case_numbers, case_number_count = extract_case_numbers(text)
MineCaseNumbers ==
  /\ pc = "cases"
  /\ invoked' = invoked \cup {<<i, "extract_case_numbers">>}
  /\ case_numbers' \in extract_case_numbers(text)
  /\ pc' = "timeline"
  /\ UNCHANGED <<inputs, i, temp_path, disk, text, summary, gemini_response,
                 structured_data, future_dates, timeline_table, metadata,
                 summaries, db, exc, http_response>>

\* timeline_table = generate_case_timeline(text)
BuildTimeline ==
  /\ pc = "timeline"
  /\ invoked' = invoked \cup {<<i, "generate_case_timeline">>}
  /\ \E r \in {generate_case_timeline(text, now)} :
       IF r.raised
       THEN /\ Raise(r.value, "year 0 is out of range")
            /\ UNCHANGED timeline_table
       ELSE /\ timeline_table' = r.value
            /\ pc' = "metadata"
            /\ UNCHANGED exc
  /\ UNCHANGED <<inputs, i, temp_path, disk, text, summary, gemini_response,
                 structured_data, future_dates, case_numbers, metadata,
                 summaries, db, http_response>>

\* Lines 353-367: sections_found_count and the metadata block.
BuildMetadata ==
  /\ pc = "metadata"
  /\ IF SectionsCountRaises(structured_data)
     THEN /\ Raise("TypeError", "object of type 'NoneType' has no len()")
          /\ UNCHANGED metadata
     ELSE /\ metadata' = [upcoming_dates |-> future_dates.count,
                          sections |-> sections_found_count(structured_data),
                          case_numbers |-> case_numbers.count,
                          list |-> case_numbers.list]
          /\ pc' = "store"
          /\ UNCHANGED exc
  /\ UNCHANGED <<inputs, i, temp_path, disk, text, summary, gemini_response,
                 structured_data, future_dates, case_numbers, timeline_table,
                 summaries, db, http_response, invoked>>

\* The dict appended to summaries.
DocumentResult ==
  [filename |-> FileName(i), summary |-> summary,
   structured_summary |-> structured_data, metadata |-> metadata,
   timeline |-> timeline_table]

\* Lines 370-381: doc_ref.set(...); Firestore stores the record or fails.
StoreSummary ==
  /\ pc = "store"
  /\ \E stored \in BOOLEAN :
       IF stored
       THEN /\ db' = Append(db, DocumentResult)
            /\ pc' = "append"
            /\ UNCHANGED exc
       ELSE /\ Raise("GoogleAPICallError", "Firestore set failed")
            /\ UNCHANGED db
  /\ UNCHANGED <<inputs, i, temp_path, disk, locals, summaries, http_response, invoked>>

\* Lines 383-389.
AppendSummary ==
  /\ pc = "append"
  /\ summaries' = Append(summaries, DocumentResult)
  /\ pc' = "finally"
  /\ UNCHANGED <<inputs, i, temp_path, disk, locals, db, exc, http_response, invoked>>

\* Lines 391-394: the finally clause, then the exception goes on to the
\* caller (a 500 response), or the loop goes on to the next file.
Finally ==
  /\ pc = "finally"
  /\ disk' = IF temp_path # None /\ temp_path \in disk
             THEN disk \ {temp_path} ELSE disk
  /\ IF exc # NoException
     THEN /\ http_response' = [status |-> 500, summaries |-> <<>>]
          /\ pc' = "done"
          /\ UNCHANGED i
     ELSE /\ i' = i + 1
          /\ pc' = "loop"
          /\ UNCHANGED http_response
  /\ UNCHANGED <<inputs, temp_path, locals, summaries, db, exc, invoked>>

Next ==
  \/ Authenticate
  \/ NextFile
  \/ ReturnSummaries
  \/ SaveTempFile
  \/ ExtractText
  \/ Summarize
  \/ ExtractStructured
  \/ MineDates
  \/ MineCaseNumbers
  \/ BuildTimeline
  \/ BuildMetadata
  \/ StoreSummary
  \/ AppendSummary
  \/ Finally

Spec == Init /\ [][Next]_vars

(***************************************************************************)
(* The regex extractors called alone: extract_future_dates,                *)
(* extract_case_numbers and generate_case_timeline on a text of the        *)
(* catalogue, at an instant of Nows.  The calls use the handler's locals   *)
(* text, future_dates, case_numbers, timeline_table and exc; invoked       *)
(* records the functions called, under the file index 0.                   *)
(***************************************************************************)

\* The sentences the texts are made of.
Sentences ==
  { "Heard on 21 October 2099.",
    "Heard on 21st October 2099.",
    "Heard on October 21, 2099.",
    "Heard on 2099-10-21.",
    "Heard on 21/10/2099.",
    "Heard on 21-10-2099.",
    "Heard on 21.10.2099.",
    "Due 15 January 2099 and 01 March 2099.",
    "Trial set for March 2026 at court.",
    "Hearing on 10 March 2026 was held.",
    "Order due 20 March 2026 finally.",
    "Filed in March 0000 at court.",
    "Paid on 31 February 2099 or 30/13/2099.",
    "The hearing is scheduled for 15 March 2099.",
    "Case No. 45/2021 was filed.",
    "Listed 12 March 2026, 15/03/26, 16.03.26 or 21-10-99.",
    "Nothing is dated here." }

\* The texts of n sentences, joined by one space.
RECURSIVE TextsOf(_)
TextsOf(n) ==
  IF n = 1 THEN Sentences
  ELSE {t \o " " \o s : t \in TextsOf(n - 1), s \in Sentences}

MinerTexts == {""} \cup UNION {TextsOf(n) : n \in 1..MaxSentences}

Called(function) == <<0, function>> \in invoked

InitMiners ==
  /\ files = <<>>
  /\ authorization = ""
  /\ now \in Nows
  /\ pc = "miners"
  /\ i = 0
  /\ temp_path = None
  /\ disk = {}
  /\ text \in MinerTexts
  /\ summary = ""
  /\ gemini_response = Answer("")
  /\ structured_data = EmptyDict
  /\ future_dates = [dates |-> <<>>, count |-> 0]
  /\ case_numbers = [list |-> <<>>, count |-> 0]
  /\ timeline_table = ""
  /\ metadata = NoMetadata
  /\ summaries = <<>>
  /\ db = <<>>
  /\ exc = NoException
  /\ http_response = Pending
  /\ invoked = {}

\* future_dates, date_count = extract_future_dates(text)
CallExtractFutureDates ==
  /\ pc = "miners"
  /\ ~Called("extract_future_dates")
  /\ invoked' = invoked \cup {<<0, "extract_future_dates">>}
  /\ future_dates' = extract_future_dates(text, now)
  /\ UNCHANGED <<inputs, pc, i, temp_path, disk, text, summary, gemini_response,
                 structured_data, case_numbers, timeline_table, metadata,
                 summaries, db, exc, http_response>>

\* case_numbers, case_number_count = extract_case_numbers(text)
CallExtractCaseNumbers ==
  /\ pc = "miners"
  /\ ~Called("extract_case_numbers")
  /\ invoked' = invoked \cup {<<0, "extract_case_numbers">>}
  /\ case_numbers' \in extract_case_numbers(text)
  /\ UNCHANGED <<inputs, pc, i, temp_path, disk, text, summary, gemini_response,
                 structured_data, future_dates, timeline_table, metadata,
                 summaries, db, exc, http_response>>

\* timeline_table = generate_case_timeline(text), or the exception it raises.
CallGenerateCaseTimeline ==
  /\ pc = "miners"
  /\ ~Called("generate_case_timeline")
  /\ invoked' = invoked \cup {<<0, "generate_case_timeline">>}
  /\ \E r \in {generate_case_timeline(text, now)} :
       IF r.raised
       THEN /\ exc' = Raised(r.value, "year 0 is out of range")
            /\ UNCHANGED timeline_table
       ELSE /\ timeline_table' = r.value
            /\ UNCHANGED exc
  /\ UNCHANGED <<inputs, pc, i, temp_path, disk, text, summary, gemini_response,
                 structured_data, future_dates, case_numbers, metadata,
                 summaries, db, http_response>>

NextMiners ==
  \/ CallExtractFutureDates
  \/ CallExtractCaseNumbers
  \/ CallGenerateCaseTimeline

SpecMiners == InitMiners /\ [][NextMiners]_vars

(***************************************************************************)
(* The properties of upload_and_summarize, checked under Spec.             *)
(***************************************************************************)

Range(seq) == {seq[k] : k \in DOMAIN seq}

\* The request has ended and the caller has its response.
Ended == pc = "done"

\* C1: failure isolation.  When the request has ended, every document whose
\* result the handler assembled is returned to the caller: the failure of
\* one document of the batch loses no other document's result.
C1_FailureIsolation ==
  Ended /\ http_response.status \in {200, 500}
    => Range(summaries) \subseteq Range(http_response.summaries)

\* C2: temporary-file cleanup.  When the processing of a document has ended
\* (the loop is at its head again, or the request has ended), no temporary
\* file exists, whichever way the processing ended.
C2_TempFileCleanup == pc \in {"loop", "done"} => disk = {}

\* The stages that follow text extraction.
DownstreamStages ==
  { "summarize_with_gemini", "extract_structured_summary",
    "extract_future_dates", "extract_case_numbers", "generate_case_timeline" }

\* A page without text: nothing but white space.
BlankPage(page) == \A k \in 1..Len(page) : Ch(page, k) \in SpaceChars

\* The extracted text of the file is empty: none of its pages has text.
Textless(file) == \A k \in DOMAIN file.pages : BlankPage(file.pages[k])

\* The file PdfReader reads and finds no text in.
EmptyDocument(file) == file.readable /\ ~file.corrupt /\ Textless(file)

\* The names of the files from the k-th on whose extracted text is not
\* empty, in the order of the batch.
RECURSIVE NonEmptyNames(_)
NonEmptyNames(k) ==
  IF k > Len(files) THEN <<>>
  ELSE (IF Textless(files[k]) THEN <<>> ELSE <<FileName(k)>>)
         \o NonEmptyNames(k + 1)

FileNamesOf(list) == [k \in DOMAIN list |-> list[k].filename]

\* C3: result list shape.  A request no stage of which failed returns one
\* result per document with non-empty extracted text, in the order of the
\* batch; a document with empty text is never the one that raises, and no
\* stage after text extraction is ever invoked for it.
C3_ResultListShape ==
  /\ http_response.status = 200
       => FileNamesOf(http_response.summaries) = NonEmptyNames(1)
  /\ exc # NoException => ~EmptyDocument(files[i])
  /\ \A k \in 1..Len(files) :
       EmptyDocument(files[k])
         => \A stage \in DownstreamStages : <<k, stage>> \notin invoked

\* A batch of an empty document followed by one with text has been answered
\* with the second document's result alone.
C3_Witness ==
  /\ http_response.status = 200
  /\ Len(files) = 2
  /\ EmptyDocument(files[1])
  /\ extract_text_from_pdf(files[1]) = ""
  /\ extract_text_from_pdf(files[2]) # ""
  /\ FileNamesOf(http_response.summaries) = <<FileName(2)>>

\* The number of sections of a structured outcome: the length of the list,
\* 0 when the field is null or absent, or the outcome is the error marker.
SectionsOf(d) ==
  IF "Sections_Invoked" \in DOMAIN d /\ d["Sections_Invoked"].type = "list"
  THEN Len(d["Sections_Invoked"].items) ELSE 0

\* C7: the sections count is total.  For every outcome the structured
\* extractor returned, the metadata is built, with the number of sections
\* of the outcome as its sections count: counting never raises.
C7_SectionsCountTotal ==
  /\ exc.type # "TypeError"
  /\ pc \in {"store", "append"} => metadata.sections = SectionsOf(structured_data)

\* s has a "{" with a "}" after it.
HasBraceSpan(s) ==
  \E a \in 1..Len(s) :
    Ch(s, a) = "{" /\ \E b \in (a + 1)..Len(s) : Ch(s, b) = "}"

\* The part of s from its first "{" to its last "}".
OuterBraces(s) ==
  SubSeq(s, MinOf(PositionsOf(s, "{")), MaxOf(PositionsOf(s, "}")))

\* The structured extractor has been called for the current document and
\* the capability has answered.
Answered ==
  <<i, "extract_structured_summary">> \in invoked /\ ~gemini_response.raises

NoSpanAnswered == Answered /\ ~HasBraceSpan(gemini_response.text)

\* The answer has a span, which is not JSON.
MalformedAnswered ==
  /\ Answered
  /\ HasBraceSpan(gemini_response.text)
  /\ JsonLoads(OuterBraces(gemini_response.text)) = JSONDecodeError

\* C9: a response without a "{" ... "}" span gives the error marker, not a
\* failure: the extractor raises nothing, the miners and the timeline are
\* still run, and the document's result carries the marker, with a sections
\* count of 0.  A span that is not JSON is a raised failure instead.
C9_NoJsonIsAValue ==
  /\ NoSpanAnswered
       => /\ structured_data = NoJsonMarker
          /\ exc.detail # ExtractionFailed.detail
          /\ pc = "dates" => exc = NoException
          /\ pc \in {"store", "append"}
               => /\ \A stage \in DownstreamStages : <<i, stage>> \in invoked
                  /\ DocumentResult.structured_summary = NoJsonMarker
                  /\ DocumentResult.metadata.sections = 0
          /\ pc = "finally" /\ exc = NoException
               => /\ summaries # <<>>
                  /\ summaries[Len(summaries)].filename = FileName(i)
                  /\ summaries[Len(summaries)].structured_summary = NoJsonMarker
  /\ MalformedAnswered
       => /\ exc = Raised("HTTPException", ExtractionFailed.detail)
          /\ pc \in {"finally", "done"}

\* The capability answered "} nothing {" for a document, every later stage
\* has run for it, and its result, carrying the error marker, has been
\* appended to the list the handler returns.
C9_Witness ==
  /\ NoSpanAnswered
  /\ gemini_response = Answer("} nothing {")
  /\ pc = "finally"
  /\ exc = NoException
  /\ <<i, "generate_case_timeline">> \in invoked
  /\ summaries # <<>>
  /\ summaries[Len(summaries)].structured_summary = NoJsonMarker

(***************************************************************************)
(* The properties of the regex extractors, checked under SpecMiners.       *)
(***************************************************************************)

\* The calendar date an element of the returned list denotes.
DateOf(date_string) == Strptime(date_string, "%d %B %Y")

\* C4: the list extract_future_dates returned has no two equal elements, is
\* in ascending order of the calendar dates its elements denote, and the
\* count returned with it is its length.
C4_DatesSortedAndDistinct ==
  Called("extract_future_dates")
    => /\ future_dates.count = Len(future_dates.dates)
       /\ \A a, b \in DOMAIN future_dates.dates :
            a < b => /\ future_dates.dates[a] # future_dates.dates[b]
                     /\ ~DateLess(DateOf(future_dates.dates[b]),
                                  DateOf(future_dates.dates[a]))

\* s holds part somewhere.
Contains(s, part) == \E k \in 1..Len(s) : LitAt(s, k, part, FALSE)

\* 21 October 2099, later than every instant of Nows, in the full-date
\* shapes: day month year without and with an ordinal suffix, month day
\* comma year, ISO, and numeric with "/", "-" or "." twice.
FullDateShapes ==
  { "21 October 2099", "21st October 2099", "October 21, 2099", "2099-10-21",
    "21/10/2099", "21-10-2099", "21.10.2099" }

\* C5: for a text that holds the date in any of the full-date shapes,
\* extract_future_dates returns the date as "DD MonthName YYYY".
C5_FullDateShapesCovered ==
  \A shape \in FullDateShapes :
    Called("extract_future_dates") /\ Contains(text, shape)
      => "21 October 2099" \in Range(future_dates.dates)

\* generate_case_timeline has returned its table for the text.
TimelineBuilt == Called("generate_case_timeline") /\ exc = NoException

\* Where the table's row of the date written as date_str begins, 0 when
\* it has no such row.
RowOf(date_str) ==
  FirstIn({k \in 1..Len(timeline_table) :
             LitAt(timeline_table, k, "| " \o date_str \o " |", FALSE)})

\* The status of an event of the date parsed_date.
StatusAt(parsed_date) ==
  IF DateLess(parsed_date, now) THEN "Completed" ELSE "Upcoming"

\* C6: the event of the sentence dated "March 2026" is dated 15 March 2026:
\* its row has the status of that date, comes after the row of 10 March 2026
\* and before the row of 20 March 2026.
C6_MonthYearIsTheFifteenth ==
  TimelineBuilt /\ Contains(text, "Trial set for March 2026 at court.")
    => /\ Contains(timeline_table,
                   "| March 2026 | Trial set for at court. | "
                     \o StatusAt([Y |-> 2026, m |-> 3, d |-> 15, tod |-> 0]) \o " |")
       /\ Contains(text, "10 March 2026") => RowOf("10 March 2026") < RowOf("March 2026")
       /\ Contains(text, "20 March 2026") => RowOf("March 2026") < RowOf("20 March 2026")

\* C8: the regex extractors never raise, whatever the text (an impossible
\* date, a month with the year 0000), and a text without matches gives the
\* empty list with the count 0, and the sentinel for the timeline.
C8_ExtractorsNeverRaise ==
  /\ exc = NoException
  /\ text \in {"", "Nothing is dated here."}
       => /\ Called("extract_future_dates")
               => future_dates = [dates |-> <<>>, count |-> 0]
          /\ Called("extract_case_numbers")
               => case_numbers = [list |-> <<>>, count |-> 0]
          /\ Called("generate_case_timeline") => timeline_table = NoTimeline

\* C10: for the case reference that starts a sentence right after the
\* period of the sentence before, extract_case_numbers returns the case
\* token alone, once.
C10_CaseTokenItself ==
  Called("extract_case_numbers")
    /\ text = "The hearing is scheduled for 15 March 2099. Case No. 45/2021 was filed."
    => case_numbers = [list |-> <<"Case No. 45/2021">>, count |-> 1]

\* C11: every date extract_future_dates returned is strictly later than the
\* instant of the call, whatever the format it was written in: a date at
\* or before that instant, today's date at midnight included, is never
\* returned.
C11_FutureOnly ==
  Called("extract_future_dates")
    => \A k \in DOMAIN future_dates.dates :
         DateLess(now, DateOf(future_dates.dates[k]))

\* Called at midnight of 15 March 2026 on a text that holds 15/03/26 and
\* 16.03.26, the function has returned the 16th and not the 15th.
C11_Witness ==
  /\ Called("extract_future_dates")
  /\ now = [Y |-> 2026, m |-> 3, d |-> 15, tod |-> 0]
  /\ Contains(text, "15/03/26")
  /\ Contains(text, "16.03.26")
  /\ "16 March 2026" \in Range(future_dates.dates)
  /\ "15 March 2026" \notin Range(future_dates.dates)

(***************************************************************************)
(* Persistence and the response, checked under Spec.                       *)
(***************************************************************************)

\* C12: when the request has ended, with a response or with an error, the
\* documents whose record was set in the "summaries" collection are the
\* documents whose result the caller received; a request that ended with an
\* error has set no record.
C12_PersistedAgreesWithResponse ==
  Ended
    => /\ Range(db) = Range(http_response.summaries)
       /\ http_response.status # 200 => db = <<>>

====
